---- MODULE Spec2Model ----
(***************************************************************************)
(* zipoxide: parallel reading (extract_zip, read_zip_contents_into_buffer) *)
(* and sequential building (create_zip_from_folder, create_zip_from_files) *)
(* of ZIP archives.                                                        *)
(*                                                                         *)
(* A path is a sequence of name components; the file system is a function  *)
(* from the paths that exist to their nodes.  An archive is the sequence   *)
(* of its entries, as the zip crate's ZipWriter / ZipArchive present it.   *)
(***************************************************************************)
EXTENDS Integers, Sequences, FiniteSets, TLC

VARIABLES
    fs,       \* the file system: existing path -> node
    pc,       \* position of the calling thread
    op,       \* the call in progress (its arguments)
    pre,      \* the file system when the call in progress began
    stack,    \* the builder's work-list (directories_to_visit / stack)
    cur,      \* the work-list element whose read_dir is being iterated
    pending,  \* the entries of that read_dir not yet yielded
    wk,       \* the per-entry workers of the parallel call in progress
    lock,     \* holder of the Mutex of shared_results (0: free)
    shared,   \* shared_results: the HashMap behind the Mutex
    arc,      \* strong count of the Arc around shared_results
    hist      \* the calls completed so far, with their results

vars == <<fs, pc, op, pre, stack, cur, pending, wk, lock, shared, arc, hist>>

----------------------------------------------------------------------------
(* Bounds *)

MaxCalls == 2      \* calls made one after the other
MaxEntries == 2    \* entries of an archive that exists beforehand

----------------------------------------------------------------------------
(* Values *)

NoPassword == "None"
Passwords == {"pw", "bad"}

Contents == {<<>>, <<1>>, <<2>>}

DirNode == [kind |-> "dir", data |-> <<>>, zip |-> FALSE, ents |-> <<>>, fin |-> FALSE]
PlainFile(d) == [kind |-> "file", data |-> d, zip |-> FALSE, ents |-> <<>>, fin |-> FALSE]
ZipFile(es, f) == [kind |-> "file", data |-> <<>>, zip |-> TRUE, ents |-> es, fin |-> f]

Entry(n, d, e, c) == [name |-> n, data |-> d, enc |-> e, corrupt |-> c, weak |-> "reject"]

EmptyMap == [k \in {} |-> <<>>]

Ok == [kind |-> "Ok", msg |-> "", map |-> EmptyMap]
OkMap(m) == [kind |-> "Ok", msg |-> "", map |-> m]
Err(m) == [kind |-> "Err", msg |-> m, map |-> EmptyMap]
Panic(m) == [kind |-> "Panic", msg |-> m, map |-> EmptyMap]
\* The process is killed by a signal; the call never returns
Killed(m) == [kind |-> "Killed", msg |-> m, map |-> EmptyMap]

NoCall == [name |-> "none", out |-> <<>>, folder |-> <<>>, files |-> <<>>,
           zip |-> <<>>, dest |-> <<>>, pw |-> NoPassword]

----------------------------------------------------------------------------
(* Paths and the file system (std::path, std::fs) *)

Parent(p) == SubSeq(p, 1, Len(p) - 1)

Ancestors(p) == {SubSeq(p, 1, k) : k \in 0 .. Len(p)}

IsPrefix(a, b) == Len(a) <= Len(b) /\ SubSeq(b, 1, Len(a)) = a

exists(f, p) == p \in DOMAIN f
is_dir(f, p) == p \in DOMAIN f /\ f[p].kind = "dir"
is_file(f, p) == p \in DOMAIN f /\ f[p].kind = "file"

\* fs::read_dir: the entries of directory p
read_dir(f, p) == {q \in DOMAIN f : Len(q) = Len(p) + 1 /\ Parent(q) = p}

\* Path::file_name: None for the root and for a path ending in ".."
HasFileName(p) == Len(p) > 0 /\ p[Len(p)] # ".."
file_name(p) == <<p[Len(p)]>>

\* Path::strip_prefix
strip_prefix(p, base) == SubSeq(p, Len(base) + 1, Len(p))

\* Path::to_str: None when a component is not valid UTF-8
NonUtf8Names == {"\\xFF"}
IsUtf8(p) == \A k \in 1 .. Len(p) : p[k] \notin NonUtf8Names

\* The path the operating system reaches by walking p from the working
\* directory: "/" restarts at the root (here the working directory), ".."
\* goes to the parent, the root being its own parent
RECURSIVE Resolve(_)
Resolve(p) ==
    IF p = <<>> THEN <<>>
    ELSE IF p[Len(p)] = "/" THEN <<>>
    ELSE IF p[Len(p)] = ".." THEN Parent(Resolve(SubSeq(p, 1, Len(p) - 1)))
    ELSE Append(Resolve(SubSeq(p, 1, Len(p) - 1)), p[Len(p)])

\* The walk of p passes through directories only, up to its last component
Reaches(f, p) == \A k \in 0 .. Len(p) - 1 : is_dir(f, Resolve(SubSeq(p, 1, k)))

\* Path::exists of a path that may hold ".." components
path_exists(f, p) == Reaches(f, p) /\ exists(f, Resolve(p))

\* The paths the walk of p passes through, p's own included
Reached(p) == {Resolve(a) : a \in Ancestors(p)}

Put(f, p, node) == [q \in DOMAIN f \cup {p} |-> IF q = p THEN node ELSE f[q]]

\* File::create succeeds when the walk of p passes through directories and
\* ends at no directory
CanCreate(f, p) == Len(p) > 0 /\ Reaches(f, p) /\ ~is_dir(f, Resolve(p))

\* Faulty variant: a creation that fails when the directory is already there
CanCreateDirOnce(f, p) ==
    /\ ~exists(f, Resolve(p))
    /\ \A a \in Reached(p) : exists(f, a) => is_dir(f, a)

\* fs::create_dir_all: every missing directory on the walk of p is created;
\* one that another thread has created meanwhile is accepted
CanCreateDirAll(f, p) == \A a \in Reached(p) : exists(f, a) => is_dir(f, a)
create_dir_all(f, p) ==
    [q \in DOMAIN f \cup Reached(p) |-> IF q \in DOMAIN f THEN f[q] ELSE DirNode]

\* The bytes of an archive file as io::copy reads them: a header mark and the
\* payload of each entry written so far, and the central directory mark once
\* the writer has finished.
RECURSIVE Payload(_)
Payload(es) == IF es = <<>> THEN <<>> ELSE <<80>> \o es[1].data \o Payload(Tail(es))
ReadBytes(node) ==
    IF node.zip THEN Payload(node.ents) \o (IF node.fin THEN <<75>> ELSE <<>>)
    ELSE node.data

\* ZipArchive::new over the bytes of the file at p
IsArchive(f, p) == is_file(f, p) /\ f[p].zip /\ f[p].fin

Names(es) == {es[k].name : k \in 1 .. Len(es)}

----------------------------------------------------------------------------
(* Calls and returns *)

Idle == pc = "idle" /\ Len(hist) < MaxCalls

\* The call `call`, begun in file system `before`, returns `res` and leaves
\* file system `f`; errs records the errors its workers returned.
ReturnOf(call, before, res, f) ==
    /\ fs' = f
    /\ hist' = Append(hist, [call |-> call, pre |-> before, post |-> f, res |-> res,
                             errs |-> {wk[j].err : j \in {i \in DOMAIN wk : wk[i].pc = "failed"}}])
    /\ pc' = "idle"
    /\ op' = NoCall
    /\ pre' = EmptyMap
    /\ stack' = <<>>
    /\ cur' = <<>>
    /\ pending' = {}
    /\ wk' = <<>>
    /\ lock' = 0
    /\ shared' = EmptyMap
    /\ arc' = 0

Return(res, f) == ReturnOf(op, pre, res, f)

----------------------------------------------------------------------------
(* Archive Builder: src/zip_writer.rs *)

ExistsMsg == "Output zip path already exists."
UnwrapMsg == "called Option::unwrap() on a None value"

BuildCall(name, out, folder, files) ==
    [NoCall EXCEPT !.name = name, !.out = out, !.folder = folder, !.files = files]

\* ZipWriter::start_file, File::open and io::copy of the source file: one
\* more entry in the archive being written at `out`.  The source is read
\* after start_file has written the entry's header.
WriteEntry(f, out, rel, src) ==
    LET started == Put(f, out, ZipFile(Append(f[out].ents,
                                              Entry(rel, <<>>, NoPassword, FALSE)),
                                       FALSE))
    IN Put(f, out, ZipFile(Append(f[out].ents,
                                  Entry(rel, ReadBytes(started[src]), NoPassword, FALSE)),
                           FALSE))

\* io::copy of the archive being written into itself: every block written is
\* read back as the next block of the source, until the writer refuses the
\* size of the entry or the disk is full
CopyOverflowMsg == "io::copy"

\* Faulty variant: the file removed again when the call ends
RemoveOutput(f, out) == [q \in DOMAIN f \ {out} |-> f[q]]

\* ZipWriter::finish, and ZipWriter's Drop on an early return or a panic:
\* the central directory is written after the entries written so far
Finalize(f, out) == Put(f, out, ZipFile(f[out].ents, TRUE))

\* Faulty variant: no guard on the destination
NeverExists(f, out) == FALSE

\* The guard on the destination: true when the call must panic
OutputExists(f, out) == exists(f, out)

\* create_zip_from_folder up to the start of the walk
create_zip_from_folder(out, folder) ==
    /\ Idle
    /\ LET call == BuildCall("create_zip_from_folder", out, folder, <<>>) IN
       IF OutputExists(fs, out)
       THEN ReturnOf(call, fs, Panic(ExistsMsg), fs)
       ELSE IF ~CanCreate(fs, out)
       THEN ReturnOf(call, fs, Err("File::create"), fs)
       ELSE /\ fs' = Put(fs, out, ZipFile(<<>>, FALSE))
            /\ pc' = "folder_walk"
            /\ op' = call
            /\ pre' = fs
            /\ stack' = <<folder>>
            /\ UNCHANGED <<cur, pending, wk, lock, shared, arc, hist>>

\* while let Some(current_dir) = directories_to_visit.pop(): fs::read_dir
folder_pop ==
    /\ pc = "folder_walk" /\ pending = {} /\ stack # <<>>
    /\ LET d == stack[Len(stack)] IN
       IF ~is_dir(fs, d)
       THEN Return(Err("read_dir"), Finalize(fs, op.out))
       ELSE /\ stack' = SubSeq(stack, 1, Len(stack) - 1)
            /\ cur' = d
            /\ pending' = read_dir(fs, d)
            /\ UNCHANGED <<fs, pc, op, pre, wk, lock, shared, arc, hist>>

\* The archive name of a file found by the folder walk
FolderRelative(path, folder) == strip_prefix(path, folder)

\* one iteration of `for entry in fs::read_dir(&current_dir)?`
folder_entry(q) ==
    /\ pc = "folder_walk" /\ q \in pending
    /\ LET rel == FolderRelative(q, op.folder) IN
       IF is_dir(fs, q)
       THEN /\ stack' = Append(stack, q)
            /\ pending' = pending \ {q}
            /\ UNCHANGED <<fs, pc, op, pre, cur, wk, lock, shared, arc, hist>>
       ELSE IF ~IsUtf8(rel)
       THEN Return(Panic(UnwrapMsg),
                   Finalize(fs, op.out))
       ELSE IF rel \in Names(fs[op.out].ents)
       THEN Return(Err("Duplicate filename"), Finalize(fs, op.out))
       ELSE \/ /\ fs' = WriteEntry(fs, op.out, rel, q)
               /\ pending' = pending \ {q}
               /\ UNCHANGED <<pc, op, pre, stack, cur, wk, lock, shared, arc, hist>>
            \/ /\ q = op.out
               /\ Return(Err(CopyOverflowMsg), Finalize(fs, op.out))

\* zip_writer.finish()?; Ok(())
folder_finish ==
    /\ pc = "folder_walk" /\ pending = {} /\ stack = <<>>
    /\ Return(Ok, Finalize(fs, op.out))

\* The work-list of create_zip_from_files after its first loop
InitialStack(files) == [k \in 1 .. Len(files) |-> <<files[k], file_name(files[k])>>]

\* create_zip_from_files up to the start of the walk
create_zip_from_files(out, files) ==
    /\ Idle
    /\ LET call == BuildCall("create_zip_from_files", out, <<>>, files) IN
       IF OutputExists(fs, out)
       THEN ReturnOf(call, fs, Panic(ExistsMsg), fs)
       ELSE IF ~CanCreate(fs, out)
       THEN ReturnOf(call, fs, Err("File::create"), fs)
       ELSE IF \E k \in 1 .. Len(files) : ~HasFileName(files[k])
       THEN ReturnOf(call, fs, Err("Invalid file name"),
                     Put(fs, out, ZipFile(<<>>, TRUE)))
       ELSE /\ fs' = Put(fs, out, ZipFile(<<>>, FALSE))
            /\ pc' = "files_walk"
            /\ op' = call
            /\ pre' = fs
            /\ stack' = InitialStack(files)
            /\ UNCHANGED <<cur, pending, wk, lock, shared, arc, hist>>

\* while let Some((full_path, relative_path)) = stack.pop()
files_pop ==
    /\ pc = "files_walk" /\ pending = {} /\ stack # <<>>
    /\ LET top == stack[Len(stack)]
           full == top[1]
           rel == top[2]
           rest == SubSeq(stack, 1, Len(stack) - 1)
       IN
       IF is_dir(fs, full)
       THEN /\ stack' = rest
            /\ cur' = top
            /\ pending' = read_dir(fs, full)
            /\ UNCHANGED <<fs, pc, op, pre, wk, lock, shared, arc, hist>>
       ELSE IF is_file(fs, full)
       THEN IF ~IsUtf8(rel)
            THEN Return(Panic(UnwrapMsg),
                        Finalize(fs, op.out))
            ELSE IF rel \in Names(fs[op.out].ents)
            THEN Return(Err("Duplicate filename"), Finalize(fs, op.out))
            ELSE \/ /\ fs' = WriteEntry(fs, op.out, rel, full)
                    /\ stack' = rest
                    /\ UNCHANGED <<pc, op, pre, cur, pending, wk, lock, shared, arc, hist>>
                 \/ /\ full = op.out
                    /\ Return(Err(CopyOverflowMsg), Finalize(fs, op.out))
       ELSE /\ stack' = rest
            /\ UNCHANGED <<fs, pc, op, pre, cur, pending, wk, lock, shared, arc, hist>>

\* one iteration of `for entry in fs::read_dir(&full_path)?`
files_entry(q) ==
    /\ pc = "files_walk" /\ q \in pending
    /\ stack' = Append(stack, <<q, cur[2] \o file_name(q)>>)
    /\ pending' = pending \ {q}
    /\ UNCHANGED <<fs, pc, op, pre, cur, wk, lock, shared, arc, hist>>

\* zip_writer.finish()?; Ok(())
files_finish ==
    /\ pc = "files_walk" /\ pending = {} /\ stack = <<>>
    /\ Return(Ok, Finalize(fs, op.out))

----------------------------------------------------------------------------
(* The zip crate as the readers use it *)

\* Faulty variant: every central directory record kept as an entry of its own
IndexRaw(es) == es

\* ZipArchive::new keeps the central directory in a map ordered by first
\* insertion and keyed by name: a later record of a name replaces the earlier
\* one in place.  Index(es) is the sequence by_index ranges over.
Index(es) ==
    LET first == {k \in 1 .. Len(es) : \A j \in 1 .. k - 1 : es[j].name # es[k].name}
        at(r) == CHOOSE k \in first : Cardinality({j \in first : j <= k}) = r
        latest(n) == CHOOSE k \in 1 .. Len(es) :
                        es[k].name = n /\ \A j \in k + 1 .. Len(es) : es[j].name # n
    IN [r \in 1 .. Cardinality(first) |-> es[latest(es[at(r)].name)]]

\* by_index (password None) and by_index_decrypt (password Some): "ok", or
\* "garbled" when the ZipCrypto check byte accepts a wrong password, or the
\* error returned
ByIndexOutcome(e, pw) ==
    IF e.enc = NoPassword THEN "ok"
    ELSE IF pw = NoPassword THEN "Password required to decrypt file"
    ELSE IF pw = e.enc THEN "ok"
    ELSE IF e.weak = "reject" THEN "Invalid password"
    ELSE "garbled"

\* What a wrongly accepted password decrypts to
Garbage(d) == <<0>> \o d

\* The bytes io::copy reads from the entry
Decoded(e, garbled) == IF garbled THEN Garbage(e.data) ELSE e.data

\* Whether reading the entry to its end fails the CRC-32 check
ChecksumFails(e, garbled) == e.corrupt \/ (garbled /\ e.weak = "checksum")

----------------------------------------------------------------------------
(* Workers of a parallel call (rayon par_iter().try_for_each) *)

IdleWorker == [pc |-> "idle", err |-> "", garbled |-> FALSE, buf |-> <<>>, off |-> 0]

Terminal == {"done", "failed", "skipped"}

Workers == DOMAIN wk
Failed == {i \in Workers : wk[i].pc = "failed"}
AllTerminal == \A i \in Workers : wk[i].pc \in Terminal

\* The mapped region: the bytes of the archive file when Mmap::map mapped it
Mapped == pre[op.zip]

\* The region is live from Mmap::map to the return of the call
RegionLive == pc \in {"read_par", "extract_par"}

\* The file behind the region has been written since it was mapped
Clobbered == fs[op.zip] # Mapped

\* The entry of worker i: ordinal i - 1 of the archive index
EntryOf(i) == Index(Mapped.ents)[i]

Fail(i, e) == wk' = [wk EXCEPT ![i].pc = "failed", ![i].err = e]

\* try_for_each stops handing out items once an item has failed
par_skip(i) ==
    /\ pc \in {"read_par", "extract_par"}
    /\ i \in Workers /\ wk[i].pc = "idle"
    /\ Failed # {}
    /\ wk' = [wk EXCEPT ![i].pc = "skipped"]
    /\ UNCHANGED <<fs, pc, op, pre, stack, cur, pending, lock, shared, arc, hist>>

----------------------------------------------------------------------------
(* Parallel Buffering Engine: read_zip_contents_into_buffer *)

ReadCall(zip, pw) ==
    [NoCall EXCEPT !.name = "read_zip_contents_into_buffer", !.zip = zip, !.pw = pw]

\* read_zip_contents_into_buffer up to the fan-out
read_zip_contents_into_buffer(zip, pw) ==
    /\ Idle
    /\ LET call == ReadCall(zip, pw) IN
       IF ~is_file(fs, zip)
       THEN ReturnOf(call, fs, Err("File::open"), fs)
       ELSE IF ~IsArchive(fs, zip)
       THEN ReturnOf(call, fs, Err("ZipArchive::new"), fs)
       ELSE /\ pc' = "read_par"
            /\ op' = call
            /\ pre' = fs
            /\ wk' = [i \in 1 .. Len(Index(fs[zip].ents)) |-> IdleWorker]
            /\ shared' = EmptyMap
            /\ arc' = 1
            /\ lock' = 0
            /\ UNCHANGED <<fs, stack, cur, pending, hist>>

\* the worker's own ZipArchive::new over the mapped region
read_open_view(i) ==
    /\ pc = "read_par" /\ i \in Workers /\ wk[i].pc = "idle"
    /\ wk' = [wk EXCEPT ![i].pc = "view"]
    /\ UNCHANGED <<fs, pc, op, pre, stack, cur, pending, lock, shared, arc, hist>>

\* match &password { Some(v) => by_index_decrypt(..)?, None => by_index(..)? }
read_by_index(i) ==
    /\ pc = "read_par" /\ i \in Workers /\ wk[i].pc = "view"
    /\ LET o == ByIndexOutcome(EntryOf(i), op.pw) IN
       IF o \in {"ok", "garbled"}
       THEN wk' = [wk EXCEPT ![i].pc = "entry", ![i].garbled = (o = "garbled")]
       ELSE Fail(i, o)
    /\ UNCHANGED <<fs, pc, op, pre, stack, cur, pending, lock, shared, arc, hist>>

\* io::copy(&mut entry, &mut buffer)?
read_copy(i) ==
    /\ pc = "read_par" /\ i \in Workers /\ wk[i].pc = "entry"
    /\ IF ChecksumFails(EntryOf(i), wk[i].garbled)
       THEN Fail(i, "Invalid checksum")
       ELSE wk' = [wk EXCEPT ![i].pc = "copied",
                             ![i].buf = Decoded(EntryOf(i), wk[i].garbled)]
    /\ UNCHANGED <<fs, pc, op, pre, stack, cur, pending, lock, shared, arc, hist>>

\* Faulty variant: a lock that is granted whoever holds it
LockGrantedAlways(holder) == TRUE

\* Mutex::lock returns once no other thread holds the mutex
LockGranted(holder) == holder = 0

\* shared_results.lock().unwrap()
read_lock(i) ==
    /\ pc = "read_par" /\ i \in Workers /\ wk[i].pc = "copied"
    /\ LockGranted(lock)
    /\ lock' = i
    /\ wk' = [wk EXCEPT ![i].pc = "locked"]
    /\ UNCHANGED <<fs, pc, op, pre, stack, cur, pending, shared, arc, hist>>

\* Faulty variant: the map replaced by the worker's own pair instead of merged
InsertAlone(m, k, v) == [x \in {k} |-> v]

\* HashMap::insert
Insert(m, k, v) == [x \in DOMAIN m \cup {k} |-> IF x = k THEN v ELSE m[x]]

\* Faulty variant: the guard kept by the worker after its insert
GuardKept(i) == i

\* The holder of the mutex once the guard, a temporary of the insert
\* statement, has been dropped at the end of the statement: nobody
GuardDropped(i) == 0

\* .insert(file_name, buffer); the guard is dropped at the end of the statement
read_insert(i) ==
    /\ pc = "read_par" /\ i \in Workers /\ wk[i].pc = "locked"
    /\ shared' = Insert(shared, EntryOf(i).name, wk[i].buf)
    /\ lock' = GuardDropped(i)
    /\ wk' = [wk EXCEPT ![i].pc = "done"]
    /\ UNCHANGED <<fs, pc, op, pre, stack, cur, pending, arc, hist>>

\* Faulty variant: the result of try_for_each dropped, as a missing `?` would
ReadResultsDropped == {OkMap(shared)}

\* What the call returns once try_for_each has returned: `?` on its result,
\* then Arc::try_unwrap(shared_results).unwrap().into_inner()
ReadResults ==
    IF Failed # {} THEN {Err(wk[j].err) : j \in Failed}
    ELSE IF arc # 1 THEN {Panic("Arc::try_unwrap")}
    ELSE {OkMap(shared)}

read_join ==
    /\ pc = "read_par" /\ AllTerminal
    /\ \E r \in ReadResults : Return(r, fs)

----------------------------------------------------------------------------
(* Parallel Extraction Engine: extract_zip *)

ExtractCall(zip, dest, pw) ==
    [NoCall EXCEPT !.name = "extract_zip", !.zip = zip, !.dest = dest, !.pw = pw]

\* extract_zip up to the fan-out
extract_zip(zip, dest, pw) ==
    /\ Idle
    /\ LET call == ExtractCall(zip, dest, pw) IN
       IF ~is_file(fs, zip)
       THEN ReturnOf(call, fs, Err("File::open"), fs)
       ELSE IF ~IsArchive(fs, zip)
       THEN ReturnOf(call, fs, Err("ZipArchive::new"), fs)
       ELSE /\ pc' = "extract_par"
            /\ op' = call
            /\ pre' = fs
            /\ wk' = [i \in 1 .. Len(Index(fs[zip].ents)) |-> IdleWorker]
            /\ UNCHANGED <<fs, stack, cur, pending, lock, shared, arc, hist>>

extract_open_view(i) ==
    /\ pc = "extract_par" /\ i \in Workers /\ wk[i].pc = "idle"
    /\ wk' = [wk EXCEPT ![i].pc = "view"]
    /\ UNCHANGED <<fs, pc, op, pre, stack, cur, pending, lock, shared, arc, hist>>

extract_by_index(i) ==
    /\ pc = "extract_par" /\ i \in Workers /\ wk[i].pc = "view"
    /\ LET o == ByIndexOutcome(EntryOf(i), op.pw) IN
       IF o \in {"ok", "garbled"}
       THEN wk' = [wk EXCEPT ![i].pc = "entry", ![i].garbled = (o = "garbled")]
       ELSE Fail(i, o)
    /\ UNCHANGED <<fs, pc, op, pre, stack, cur, pending, lock, shared, arc, hist>>

\* Faulty variant: the parent-directory segments of the name dropped
OutputPathEnclosed(dest, name) ==
    dest \o SelectSeq(name, LAMBDA c : c \notin {"/", ".."})

\* extract_path.join(Path::new(file_name)): an absolute name replaces
\* extract_path
OutputPath(dest, name) ==
    IF name # <<>> /\ name[1] = "/" THEN name ELSE dest \o name

\* if let Some(parent_dir) = output_path.parent() { if !parent_dir.exists()
extract_check_parent(i) ==
    /\ pc = "extract_par" /\ i \in Workers /\ wk[i].pc = "entry"
    /\ LET path == OutputPath(op.dest, EntryOf(i).name) IN
       IF Len(path) > 0 /\ ~path_exists(fs, Parent(path))
       THEN wk' = [wk EXCEPT ![i].pc = "mkdir"]
       ELSE wk' = [wk EXCEPT ![i].pc = "create"]
    /\ UNCHANGED <<fs, pc, op, pre, stack, cur, pending, lock, shared, arc, hist>>

\* fs::create_dir_all(parent_dir)?
extract_create_dir_all(i) ==
    /\ pc = "extract_par" /\ i \in Workers /\ wk[i].pc = "mkdir"
    /\ LET parent == Parent(OutputPath(op.dest, EntryOf(i).name)) IN
       IF CanCreateDirAll(fs, parent)
       THEN /\ fs' = create_dir_all(fs, parent)
            /\ wk' = [wk EXCEPT ![i].pc = "create"]
       ELSE /\ Fail(i, "create_dir_all")
            /\ UNCHANGED fs
    /\ UNCHANGED <<pc, op, pre, stack, cur, pending, lock, shared, arc, hist>>

\* File::create(output_path)?
extract_file_create(i) ==
    /\ pc = "extract_par" /\ i \in Workers /\ wk[i].pc = "create"
    /\ LET path == OutputPath(op.dest, EntryOf(i).name) IN
       IF CanCreate(fs, path)
       THEN /\ fs' = Put(fs, Resolve(path), PlainFile(<<>>))
            /\ wk' = [wk EXCEPT ![i].pc = "copy", ![i].off = 0]
       ELSE /\ Fail(i, "File::create")
            /\ UNCHANGED fs
    /\ UNCHANGED <<pc, op, pre, stack, cur, pending, lock, shared, arc, hist>>

\* write(2) of `bytes` at offset `off` of a file holding `content`; a gap
\* left by a truncation reads as zeros
WriteAt(content, off, bytes) ==
    LET n == IF Len(content) > off + Len(bytes) THEN Len(content) ELSE off + Len(bytes)
    IN [k \in 1 .. n |->
          IF k > off /\ k <= off + Len(bytes) THEN bytes[k - off]
          ELSE IF k <= Len(content) THEN content[k]
          ELSE 0]

\* io::copy(&mut entry, &mut file)?: one write per step, one byte per write
extract_copy(i) ==
    /\ pc = "extract_par" /\ i \in Workers /\ wk[i].pc = "copy"
    /\ LET path == Resolve(OutputPath(op.dest, EntryOf(i).name))
           data == Decoded(EntryOf(i), wk[i].garbled)
           off == wk[i].off
           last == Len(data) - off <= 1
           chunk == SubSeq(data, off + 1, IF last THEN Len(data) ELSE off + 1)
       IN
       /\ fs' = Put(fs, path, PlainFile(WriteAt(fs[path].data, off, chunk)))
       /\ IF ~last THEN wk' = [wk EXCEPT ![i].off = off + 1]
          ELSE IF ChecksumFails(EntryOf(i), wk[i].garbled)
          THEN Fail(i, "Invalid checksum")
          ELSE wk' = [wk EXCEPT ![i].pc = "done", ![i].off = Len(data)]
    /\ UNCHANGED <<pc, op, pre, stack, cur, pending, lock, shared, arc, hist>>

\* The workers about to read the mapped region: to parse the central
\* directory, to read the entry's local header, or to read its payload
Reading == {i \in Workers : wk[i].pc \in {"idle", "view", "copy"}}

\* A read of the region after the file behind it was truncated or rewritten
\* finds bytes that are no archive: the worker returns an error
region_fault(i) ==
    /\ pc = "extract_par" /\ i \in Reading
    /\ Clobbered
    /\ Fail(i, "invalid Zip archive")
    /\ UNCHANGED <<fs, pc, op, pre, stack, cur, pending, lock, shared, arc, hist>>

\* A read of a page of the region that lies beyond the end of the truncated
\* file raises SIGBUS, which kills the process
region_sigbus(i) ==
    /\ pc = "extract_par" /\ i \in Reading
    /\ Clobbered
    /\ Return(Killed("SIGBUS"), fs)

\* What extract_zip returns once try_for_each has returned: the result of
\* try_for_each is dropped and the function ends with Ok(())
ExtractResult(failed) == Ok

extract_join ==
    /\ pc = "extract_par" /\ AllTerminal
    /\ Return(ExtractResult(Failed), fs)

----------------------------------------------------------------------------
(* Specification of the builders and of a reader run on what they built *)

Absent == <<0>>

F == <<"f">>
D == <<"d">>
DG == <<"d", "g">>
DE == <<"d", "e">>
DEH == <<"d", "e", "h">>
DX == <<"d", "\\xFF">>
OZip == <<"o.zip">>
DOZip == <<"d", "o.zip">>
Out == <<"out">>

FileSlots == {F, DG, DEH, DX, OZip}
DirSlots == {D, DE}

\* The content of each file, where it exists
SlotContents(p) ==
    IF p = F THEN {Absent, <<>>}
    ELSE IF p = DG THEN {Absent, <<1>>}
    ELSE IF p = DEH THEN {Absent, <<2>>}
    ELSE IF p = DX THEN {Absent, <<1>>}
    ELSE {Absent, <<>>}

\* The tree with the directories ds and the files of c that are not Absent
Tree(c, ds) ==
    LET files == {p \in FileSlots : c[p] # Absent} IN
    [p \in {<<>>} \cup ds \cup files |-> IF p \in files THEN PlainFile(c[p]) ELSE DirNode]

WellFormed(t) == \A p \in DOMAIN t : p = <<>> \/ is_dir(t, Parent(p))

Trees ==
    {t \in {Tree(c, ds) : c \in [FileSlots -> Contents \cup {Absent}], ds \in SUBSET DirSlots} :
        /\ WellFormed(t)
        /\ \A p \in FileSlots : p \in DOMAIN t => t[p].data \in SlotContents(p)
        /\ DX \in DOMAIN t => DOMAIN t = {<<>>, D, DG, DX}
        /\ OZip \in DOMAIN t => DE \notin DOMAIN t}

DD == <<"d", "..">>

FolderArgs == {<<OZip, D>>, <<DOZip, D>>}
FilesArgs == {<<OZip, <<F, D>>>>, <<DOZip, <<F, D>>>>, <<OZip, <<DE, DG>>>>,
              <<OZip, <<F, F>>>>, <<OZip, <<D, DD>>>>}

\* The archive the first call built, until another call is made: the readers
\* are run on an archive straight after it is built, as the tests do
LastBuilt ==
    IF Len(hist) = 1 /\ hist[1].call.out # <<>>
    THEN {hist[1].call.out} ELSE {}

Quiet ==
    /\ pc = "idle"
    /\ op = NoCall
    /\ pre = EmptyMap
    /\ stack = <<>>
    /\ cur = <<>>
    /\ pending = {}
    /\ wk = <<>>
    /\ lock = 0
    /\ shared = EmptyMap
    /\ arc = 0
    /\ hist = <<>>

InitBuild == fs \in Trees /\ Quiet

BuilderSteps ==
    \/ folder_pop
    \/ \E q \in pending : folder_entry(q)
    \/ folder_finish
    \/ files_pop
    \/ \E q \in pending : files_entry(q)
    \/ files_finish

ReadSteps ==
    \/ \E i \in Workers : read_open_view(i)
    \/ \E i \in Workers : read_by_index(i)
    \/ \E i \in Workers : read_copy(i)
    \/ \E i \in Workers : read_lock(i)
    \/ \E i \in Workers : read_insert(i)
    \/ read_join

ExtractSteps ==
    \/ \E i \in Workers : extract_open_view(i)
    \/ \E i \in Workers : extract_by_index(i)
    \/ \E i \in Workers : extract_check_parent(i)
    \/ \E i \in Workers : extract_create_dir_all(i)
    \/ \E i \in Workers : extract_file_create(i)
    \/ \E i \in Workers : extract_copy(i)
    \/ extract_join

NextBuild ==
    \/ \E a \in FolderArgs : create_zip_from_folder(a[1], a[2])
    \/ \E a \in FilesArgs : create_zip_from_files(a[1], a[2])
    \/ BuilderSteps
    \/ \E zip \in LastBuilt : read_zip_contents_into_buffer(zip, NoPassword)
    \/ ReadSteps
    \/ \E zip \in LastBuilt : extract_zip(zip, Out, NoPassword)
    \/ ExtractSteps

SpecBuild == InitBuild /\ [][NextBuild]_vars

----------------------------------------------------------------------------
(* Specification of the readers on an archive that exists beforehand *)

PZip == <<"p.zip">>

Entries ==
    {Entry(<<"a">>, <<>>, NoPassword, FALSE),
     Entry(<<"a">>, <<1>>, NoPassword, FALSE),
     Entry(<<"s">>, <<2>>, NoPassword, FALSE),
     Entry(<<"s", "b">>, <<2>>, NoPassword, FALSE),
     Entry(<<"s", "b">>, <<1>>, NoPassword, TRUE),
     Entry(<<"a">>, <<1>>, "pw", FALSE),
     [Entry(<<"s", "b">>, <<2>>, "pw", FALSE) EXCEPT !.weak = "checksum"],
     [Entry(<<"s", "c">>, <<2>>, "pw", FALSE) EXCEPT !.weak = "garbage"]}

Archives == UNION {[1 .. n -> Entries] : n \in 0 .. MaxEntries}

ArchiveAt(es) == [p \in {<<>>, PZip} |-> IF p = PZip THEN ZipFile(es, TRUE) ELSE DirNode]

InitRead ==
    /\ \E es \in Archives : fs = ArchiveAt(es)
    /\ Quiet

\* One call of a reader on the archive
NextRead ==
    \/ /\ hist = <<>>
       /\ \E pw \in Passwords \cup {NoPassword} : read_zip_contents_into_buffer(PZip, pw)
    \/ ReadSteps
    \/ /\ hist = <<>>
       /\ \E pw \in Passwords \cup {NoPassword} : extract_zip(PZip, Out, pw)
    \/ ExtractSteps
    \/ \E i \in Workers : par_skip(i)

SpecRead == InitRead /\ [][NextRead]_vars

----------------------------------------------------------------------------
(* Specification of one parallel call under fair scheduling *)

LiveEntries ==
    {Entry(<<"a">>, <<1>>, NoPassword, FALSE),
     Entry(<<"s", "b">>, <<2>>, "pw", FALSE),
     Entry(<<"s", "c">>, <<2>>, NoPassword, FALSE)}

InitLive ==
    /\ \E es \in UNION {[1 .. n -> LiveEntries] : n \in 0 .. MaxEntries} : fs = ArchiveAt(es)
    /\ Quiet

NextLive ==
    \/ hist = <<>> /\ read_zip_contents_into_buffer(PZip, NoPassword)
    \/ ReadSteps
    \/ hist = <<>> /\ extract_zip(PZip, Out, NoPassword)
    \/ ExtractSteps
    \/ \E i \in Workers : par_skip(i)

\* The thread pool keeps running: while a worker can take a step or the
\* caller can return, one of them does
FairScheduling == WF_vars(ReadSteps \/ ExtractSteps \/ \E i \in Workers : par_skip(i))

SpecLive == InitLive /\ [][NextLive]_vars /\ FairScheduling

----------------------------------------------------------------------------
(* Specification of repeated reads of an archive that exists beforehand *)

RereadEntries ==
    {Entry(<<"a">>, <<>>, NoPassword, FALSE),
     Entry(<<"a">>, <<1>>, NoPassword, FALSE),
     Entry(<<"s", "b">>, <<2>>, NoPassword, FALSE),
     [Entry(<<"s", "c">>, <<2>>, "pw", FALSE) EXCEPT !.weak = "garbage"]}

InitReread ==
    /\ \E es \in UNION {[1 .. n -> RereadEntries] : n \in 0 .. MaxEntries} : fs = ArchiveAt(es)
    /\ Quiet

NextReread ==
    \/ \E pw \in {NoPassword, "bad"} : read_zip_contents_into_buffer(PZip, pw)
    \/ ReadSteps
    \/ \E i \in Workers : par_skip(i)

SpecReread == InitReread /\ [][NextReread]_vars

----------------------------------------------------------------------------
(* Specification of one extraction of an archive whose entry names hold    *)
(* parent-directory segments, an absolute name, names that reach the same  *)
(* file, and the name of the archive itself                                *)

ExtractEntries ==
    {Entry(<<"a">>, <<1, 1>>, NoPassword, FALSE),
     Entry(<<"s", "..", "a">>, <<2>>, NoPassword, FALSE),
     Entry(<<"s", "b">>, <<2>>, NoPassword, FALSE),
     Entry(<<"s", "c">>, <<1>>, NoPassword, TRUE),
     Entry(<<"..", "x">>, <<1>>, NoPassword, FALSE),
     Entry(<<"..", "p.zip">>, <<2>>, NoPassword, FALSE),
     Entry(<<"/", "r">>, <<1>>, NoPassword, FALSE)}

InitExtract ==
    /\ \E es \in UNION {[1 .. n -> ExtractEntries] : n \in 0 .. MaxEntries} :
          fs = ArchiveAt(es)
    /\ Quiet

NextExtract ==
    \/ hist = <<>> /\ extract_zip(PZip, Out, NoPassword)
    \/ ExtractSteps
    \/ \E i \in Workers : par_skip(i)
    \/ \E i \in Workers : region_fault(i)
    \/ \E i \in Workers : region_sigbus(i)

SpecExtract == InitExtract /\ [][NextExtract]_vars

----------------------------------------------------------------------------
(* Claims *)

Calls == DOMAIN hist
IsRead(k) == hist[k].call.name = "read_zip_contents_into_buffer"
IsExtract(k) == hist[k].call.name = "extract_zip"
IsFolder(k) == hist[k].call.name = "create_zip_from_folder"
IsFiles(k) == hist[k].call.name = "create_zip_from_files"
IsBuild(k) == IsFolder(k) \/ IsFiles(k)

\* The archive index call k worked on
IndexAt(k) == Index(hist[k].pre[hist[k].call.zip].ents)
\* Call k got as far as its fan-out
Opened(k) == IsArchive(hist[k].pre, hist[k].call.zip)

\* C1: whenever a worker of extract_zip has returned an error, extract_zip
\* returns Err.
C1_ExtractReportsWorkerFailure ==
    \A k \in Calls : IsExtract(k) /\ hist[k].errs # {} => hist[k].res.kind = "Err"

\* C2: whenever one or more workers of read_zip_contents_into_buffer have
\* failed, the call returns Err with the error of one of them, and returns
\* no mapping.
C2_ReadSurfacesOneError ==
    \A k \in Calls :
        IsRead(k) /\ hist[k].errs # {} =>
            /\ hist[k].res.kind = "Err"
            /\ hist[k].res.msg \in hist[k].errs
            /\ hist[k].res.map = EmptyMap

C2_Witness ==
    \E k \in Calls :
        /\ IsRead(k)
        /\ Cardinality(hist[k].errs) = 2
        /\ hist[k].res.kind = "Err"

\* The content read_zip_contents_into_buffer must deliver for entry e
Delivered(e, pw) == Decoded(e, ByIndexOutcome(e, pw) = "garbled")

\* C3: when no worker fails, read_zip_contents_into_buffer returns Ok with
\* exactly one key per entry ordinal, each value the entry's full decoded
\* content (no insert is lost); and when the shared mapping is unwrapped
\* (every worker has completed) the Arc has one owner and the lock is free.
C3_ReadReturnsCompleteMapping ==
    /\ \A k \in Calls :
         IsRead(k) /\ Opened(k) /\ hist[k].errs = {} =>
            /\ hist[k].res.kind = "Ok"
            /\ DOMAIN hist[k].res.map = Names(IndexAt(k))
            /\ Cardinality(DOMAIN hist[k].res.map) = Len(IndexAt(k))
            /\ \A i \in 1 .. Len(IndexAt(k)) :
                 hist[k].res.map[IndexAt(k)[i].name]
                     = Delivered(IndexAt(k)[i], hist[k].call.pw)
    /\ (pc = "read_par" /\ AllTerminal) => (arc = 1 /\ lock = 0)

C3_Witness ==
    \E k \in Calls :
        /\ IsRead(k)
        /\ hist[k].res.kind = "Ok"
        /\ Len(IndexAt(k)) = MaxEntries
        /\ Cardinality(DOMAIN hist[k].res.map) = MaxEntries

\* C4: a build call whose output_zip_path exists panics with "Output zip
\* path already exists." and leaves the whole file system, the existing file
\* included, as it was.
C4_ExistingOutputPanics ==
    \A k \in Calls :
        IsBuild(k) /\ exists(hist[k].pre, hist[k].call.out) =>
            /\ hist[k].res = Panic(ExistsMsg)
            /\ hist[k].post = hist[k].pre

C4_Witness ==
    /\ \E k \in Calls :
         IsFolder(k) /\ exists(hist[k].pre, hist[k].call.out) /\ hist[k].res.kind = "Panic"
    /\ \E k \in Calls :
         IsFiles(k) /\ exists(hist[k].pre, hist[k].call.out) /\ hist[k].res.kind = "Panic"

\* The name -> content pairs create_zip_from_files is to store for `files`
\* in tree t: the base name of each listed file, and for each listed
\* directory its base name joined with the relative path of every regular
\* file beneath it.
PathPairs(t, files) ==
    UNION {IF is_file(t, files[i])
           THEN {<<file_name(files[i]), ReadBytes(t[files[i]])>>}
           ELSE {<<file_name(files[i]) \o strip_prefix(q, files[i]), ReadBytes(t[q])>> :
                    q \in {x \in DOMAIN t : is_file(t, x) /\ IsPrefix(files[i], x)}} :
           i \in 1 .. Len(files)}

DistinctBaseNames(files) ==
    /\ \A i \in 1 .. Len(files) : HasFileName(files[i])
    /\ \A i, j \in 1 .. Len(files) : i # j => file_name(files[i]) # file_name(files[j])

MapIs(m, pairs) ==
    /\ DOMAIN m = {pr[1] : pr \in pairs}
    /\ \A pr \in pairs : m[pr[1]] = pr[2]

\* Calls k and k + 1 are create_zip_from_files of existing paths with
\* distinct base names, which succeeded, and a read of what it built
FilesThenRead(k) ==
    /\ k + 1 \in Calls
    /\ IsFiles(k) /\ hist[k].res.kind = "Ok"
    /\ DistinctBaseNames(hist[k].call.files)
    /\ \A i \in 1 .. Len(hist[k].call.files) : exists(hist[k].pre, hist[k].call.files[i])
    /\ IsRead(k + 1)
    /\ hist[k + 1].call.zip = hist[k].call.out
    /\ hist[k + 1].call.pw = NoPassword

\* C5: create_zip_from_files of existing files and directories with distinct
\* base names, followed by read_zip_contents_into_buffer(None), yields
\* exactly the base names / relative paths of the listed files with their
\* original contents.
C5_RoundTripPaths ==
    \A k \in Calls :
        FilesThenRead(k) =>
            /\ hist[k + 1].res.kind = "Ok"
            /\ MapIs(hist[k + 1].res.map, PathPairs(hist[k].pre, hist[k].call.files))

\* The same round trip when the archive is written outside every listed
\* directory
C5_RoundTripPathsOutside ==
    \A k \in Calls :
        /\ FilesThenRead(k)
        /\ \A i \in 1 .. Len(hist[k].call.files) :
             ~IsPrefix(hist[k].call.files[i], hist[k].call.out)
        => /\ hist[k + 1].res.kind = "Ok"
           /\ MapIs(hist[k + 1].res.map, PathPairs(hist[k].pre, hist[k].call.files))

\* The regular files of tree t beneath directory d
FilesBeneath(t, d) == {q \in DOMAIN t : is_file(t, q) /\ IsPrefix(d, q) /\ q # d}

FolderThenExtract(k) ==
    /\ k + 1 \in Calls
    /\ IsFolder(k) /\ hist[k].res.kind = "Ok"
    /\ IsExtract(k + 1)
    /\ hist[k + 1].call.zip = hist[k].call.out
    /\ ~exists(hist[k + 1].pre, hist[k + 1].call.dest)

SameTree(k) ==
    LET src == hist[k].pre
        root == hist[k].call.folder
        got == hist[k + 1].post
        dest == hist[k + 1].call.dest
    IN /\ {strip_prefix(q, dest) : q \in FilesBeneath(got, dest)}
            = {strip_prefix(q, root) : q \in FilesBeneath(src, root)}
       /\ \A q \in FilesBeneath(src, root) :
            /\ is_file(got, dest \o strip_prefix(q, root))
            /\ ReadBytes(got[dest \o strip_prefix(q, root)]) = ReadBytes(src[q])

\* C6: create_zip_from_folder followed by extract_zip into a fresh directory
\* leaves under the extraction root exactly the relative file names of the
\* regular files of the source tree, each with the same bytes.
C6_RoundTripFolder ==
    \A k \in Calls : FolderThenExtract(k) => SameTree(k)

\* The same round trip when the archive is written outside the folder
C6_RoundTripFolderOutside ==
    \A k \in Calls :
        FolderThenExtract(k) /\ ~IsPrefix(hist[k].call.folder, hist[k].call.out)
        => SameTree(k)

HasEncrypted(k) == \E i \in 1 .. Len(IndexAt(k)) : IndexAt(k)[i].enc # NoPassword

\* C7: with password None and an encrypted entry in the archive, both
\* read_zip_contents_into_buffer and extract_zip return an error.
C7_CredentialGating ==
    \A k \in Calls :
        /\ IsRead(k) \/ IsExtract(k)
        /\ Opened(k)
        /\ hist[k].call.pw = NoPassword
        /\ HasEncrypted(k)
        => hist[k].res.kind = "Err"

\* The part of C7 that is about read_zip_contents_into_buffer alone
C7_ReadGating ==
    \A k \in Calls :
        IsRead(k) /\ Opened(k) /\ hist[k].call.pw = NoPassword /\ HasEncrypted(k)
        => hist[k].res.kind = "Err"

\* C8: two calls of read_zip_contents_into_buffer on the same unmodified
\* archive with the same password: when either returns a mapping, the other
\* returns the identical mapping.
C8_ReadIdempotent ==
    \A j, k \in Calls :
        /\ j < k
        /\ IsRead(j) /\ IsRead(k)
        /\ hist[j].call = hist[k].call
        /\ Opened(j) /\ Opened(k)
        /\ hist[j].pre[hist[j].call.zip] = hist[k].pre[hist[k].call.zip]
        /\ hist[j].res.kind = "Ok" \/ hist[k].res.kind = "Ok"
        => hist[j].res = hist[k].res

C8_Witness ==
    \E j, k \in Calls :
        /\ j < k
        /\ IsRead(j) /\ IsRead(k)
        /\ hist[j].call = hist[k].call
        /\ hist[j].res.kind = "Ok" /\ hist[k].res.kind = "Ok"
        /\ Len(hist[j].pre[hist[j].call.zip].ents) = MaxEntries
        /\ Cardinality(DOMAIN hist[k].res.map) >= 1

\* C9: create_zip_from_files does not return Ok when a listed path does not
\* exist.
C9_MissingPathIsError ==
    \A k \in Calls :
        /\ IsFiles(k)
        /\ \E i \in 1 .. Len(hist[k].call.files) : ~exists(hist[k].pre, hist[k].call.files[i])
        => hist[k].res.kind # "Ok"

\* The roots a build call walks
Roots(k) ==
    IF IsFolder(k) THEN {hist[k].call.folder}
    ELSE {hist[k].call.files[i] : i \in 1 .. Len(hist[k].call.files)}

\* A regular file the walk of call k reaches has a non-UTF-8 component below
\* its root
NonUtf8Source(k) ==
    \E r \in Roots(k) : \E q \in DOMAIN hist[k].pre :
        /\ is_file(hist[k].pre, q)
        /\ IsPrefix(r, q)
        /\ ~IsUtf8(strip_prefix(q, r))

\* C10: a build call that is to write a file whose relative path is not
\* valid UTF-8 returns an error value.
C10_NonUtf8IsError ==
    \A k \in Calls :
        /\ IsBuild(k)
        /\ ~exists(hist[k].pre, hist[k].call.out)
        /\ NonUtf8Source(k)
        => hist[k].res.kind = "Err"

\* The workers inside the insert critical section
InCritical == {i \in Workers : wk[i].pc = "locked"}

\* C11: in read_zip_contents_into_buffer at most one worker is inside the
\* insert critical section, the lock is held exactly by the worker that is
\* inside it, and no worker holds the lock while it opens its index view,
\* resolves its entry or decodes the payload.
C11_InsertMutualExclusion ==
    pc = "read_par" =>
        /\ Cardinality(InCritical) <= 1
        /\ \A i \in Workers : lock = i <=> i \in InCritical
        /\ \A i \in Workers :
             wk[i].pc \in {"idle", "view", "entry", "copied"} => lock # i
        /\ lock = 0 <=> InCritical = {}

\* One worker is inside the critical section while another waits for the lock
C11_Witness ==
    /\ pc = "read_par"
    /\ \E i, j \in Workers : i # j /\ wk[i].pc = "locked" /\ lock = i /\ wk[j].pc = "copied"

\* The parent directory worker i checks
ParentOf(i) == Parent(OutputPath(op.dest, EntryOf(i).name))

\* The walk to worker i's parent directory meets no regular file: none that
\* was there before the call and none that an entry of the archive puts there
ParentWalkFree(i) ==
    /\ \A a \in Reached(ParentOf(i)) : ~is_file(pre, a)
    /\ \A j \in Workers : Resolve(OutputPath(op.dest, EntryOf(j).name)) \notin Reached(ParentOf(i))

\* C12: parent-directory creation in extract_zip is idempotent under
\* concurrency: a worker whose parent walk meets no regular file never fails
\* in create_dir_all, whatever the other workers have created meanwhile; once
\* past its check or its creation it finds the parent a directory, and it
\* fails in File::create only when its own destination is a directory.
C12_ParentCreationIdempotent ==
    pc = "extract_par" =>
        \A i \in Workers :
            ParentWalkFree(i) =>
                /\ wk[i].pc \in {"create", "copy", "done"} => is_dir(fs, Resolve(ParentOf(i)))
                /\ wk[i].pc = "failed" => wk[i].err # "create_dir_all"
                /\ wk[i].pc = "failed" /\ wk[i].err = "File::create"
                     => is_dir(fs, Resolve(OutputPath(op.dest, EntryOf(i).name)))

\* Two workers share a parent that was missing; both saw it missing, one has
\* created it and gone on, the other is about to create it
C12_Witness ==
    /\ pc = "extract_par"
    /\ \E i, j \in Workers :
         /\ i # j
         /\ ParentOf(i) = ParentOf(j)
         /\ ~exists(pre, Resolve(ParentOf(i)))
         /\ wk[i].pc = "mkdir"
         /\ wk[j].pc \in {"copy", "done"}
         /\ is_dir(fs, Resolve(ParentOf(i)))

\* The file the entry at ordinal i of call k's archive is extracted to
TargetAt(k, i) == Resolve(OutputPath(hist[k].call.dest, IndexAt(k)[i].name))

\* After call k the target of ordinal i is a file holding the entry's content
ExtractedAt(k, i) ==
    /\ is_file(hist[k].post, TargetAt(k, i))
    /\ ~hist[k].post[TargetAt(k, i)].zip
    /\ hist[k].post[TargetAt(k, i)].data = Delivered(IndexAt(k)[i], hist[k].call.pw)

\* C13: when no worker of extract_zip fails and the call returns, every
\* entry ordinal has been processed: for every entry a file exists at
\* extract_path joined with the entry's stored name, holding the entry's
\* decoded bytes.
C13_FanOutCoverage ==
    \A k \in Calls :
        IsExtract(k) /\ Opened(k) /\ hist[k].errs = {} /\ hist[k].res.kind = "Ok"
        => \A i \in 1 .. Len(IndexAt(k)) : ExtractedAt(k, i)

\* No two ordinals of call k's archive are extracted to the same file
DistinctTargets(k) ==
    \A i, j \in 1 .. Len(IndexAt(k)) : i # j => TargetAt(k, i) # TargetAt(k, j)

\* The coverage of C13 for archives whose entries go to distinct files
C13_FanOutCoverageDistinct ==
    \A k \in Calls :
        /\ IsExtract(k) /\ Opened(k) /\ hist[k].errs = {} /\ hist[k].res.kind = "Ok"
        /\ DistinctTargets(k)
        => \A i \in 1 .. Len(IndexAt(k)) : ExtractedAt(k, i)

\* The workers that hold an index view or an entry over the region
InFlight == {i \in Workers : wk[i].pc \notin Terminal \cup {"idle"}}

\* C14: in extract_zip and read_zip_contents_into_buffer the mapped region
\* outlives all work derived from it and is never mutated: while a worker
\* holds a view or is in flight the region is live, every worker is known to
\* the call that mapped the region, and the file behind the region holds the
\* bytes that were mapped.
C14_RegionOutlivesWork ==
    /\ InFlight # {} => RegionLive
    /\ ~RegionLive => wk = <<>>
    /\ RegionLive => Workers = 1 .. Len(Index(Mapped.ents))
    /\ RegionLive => ~Clobbered

\* The part of C14 that is about the lifetime of the region alone
C14_RegionLifetime ==
    /\ InFlight # {} => RegionLive
    /\ ~RegionLive => wk = <<>>
    /\ RegionLive => Workers = 1 .. Len(Index(Mapped.ents))

\* The region is released by the return of the call, once every worker has
\* completed, unless the process is killed
C14_ReleasedAfterWorkers ==
    [][RegionLive /\ ~RegionLive' =>
          AllTerminal \/ hist'[Len(hist')].res.kind = "Killed"]_vars

\* Worker i has started and not finished
Started(i) == i \in Workers /\ wk[i].pc \notin Terminal \cup {"idle"}

\* C15: under fair scheduling both parallel operations terminate: every
\* started worker eventually finishes (a worker waiting for the lock is
\* eventually granted it), and the call eventually returns.
C15_CallsTerminate ==
    /\ RegionLive ~> (pc = "idle" /\ hist # <<>>)
    /\ (\E i \in Workers : Started(i)) ~> (AllTerminal /\ Workers # {})

\* A call that fanned out to MaxEntries workers, one of which failed, has
\* returned
C15_Witness ==
    \E k \in Calls :
        /\ IsRead(k) \/ IsExtract(k)
        /\ Opened(k)
        /\ Len(IndexAt(k)) = MaxEntries
        /\ hist[k].errs # {}

\* The file worker i writes, and the bytes it writes
TargetOf(i) == Resolve(OutputPath(op.dest, EntryOf(i).name))
WrittenBy(i) == Decoded(EntryOf(i), wk[i].garbled)

\* The file of worker i is on disk with the content the worker wrote
Kept(i) ==
    /\ is_file(fs, TargetOf(i))
    /\ ~fs[TargetOf(i)].zip
    /\ fs[TargetOf(i)].data = WrittenBy(i)

\* C16: no rollback in extract_zip: once a worker has finished writing its
\* output file, the file stays on disk with its content unchanged for the
\* rest of the call, also when a sibling worker has failed.
C16_NoRollback ==
    pc = "extract_par" => \A i \in Workers : wk[i].pc = "done" => Kept(i)

\* No two workers of the call in progress write the same file
DistinctTargetsNow == \A i, j \in Workers : i # j => TargetOf(i) # TargetOf(j)

\* The statement of C16 for archives whose entries go to distinct files
C16_NoRollbackDistinct ==
    pc = "extract_par" /\ DistinctTargetsNow
        => \A i \in Workers : wk[i].pc = "done" => Kept(i)

\* The files that the finished workers wrote stay when the call returns
C16_KeptAtReturn ==
    [][pc = "extract_par" /\ pc' = "idle" /\ DistinctTargetsNow =>
          \A i \in Workers : wk[i].pc = "done" =>
              /\ is_file(fs', TargetOf(i))
              /\ fs'[TargetOf(i)].data = WrittenBy(i)]_vars

\* Call k is a create_zip_from_folder that got as far as its walk, of a
\* folder that exists and holds only names that are valid UTF-8
FolderWalk(k) ==
    /\ IsFolder(k)
    /\ ~exists(hist[k].pre, hist[k].call.out)
    /\ CanCreate(hist[k].pre, hist[k].call.out)
    /\ is_dir(hist[k].pre, hist[k].call.folder)
    /\ ~NonUtf8Source(k)

\* The entries call k left in its archive
Built(k) == hist[k].post[hist[k].call.out].ents

\* The archive of call k holds the file q of the source tree under its path
\* relative to the folder, once, with its bytes
WrittenOnce(k, q) ==
    LET rel == strip_prefix(q, hist[k].call.folder)
        at == {i \in 1 .. Len(Built(k)) : Built(k)[i].name = rel}
    IN /\ Cardinality(at) = 1
       /\ \A i \in at : Built(k)[i].data = ReadBytes(hist[k].pre[q])

\* C17: the walk of create_zip_from_folder ends with Ok for every directory
\* tree and has written every regular file under the root exactly once,
\* under its path relative to the root; no file is written twice or omitted.
C17_WalkCoversTree ==
    \A k \in Calls :
        FolderWalk(k) =>
            /\ hist[k].res.kind = "Ok"
            /\ \A q \in FilesBeneath(hist[k].pre, hist[k].call.folder) : WrittenOnce(k, q)
            /\ \A i, j \in 1 .. Len(Built(k)) : i # j => Built(k)[i].name # Built(k)[j].name

\* The same for an archive that is written outside the folder
C17_WalkCoversTreeOutside ==
    \A k \in Calls :
        FolderWalk(k) /\ ~IsPrefix(hist[k].call.folder, hist[k].call.out) =>
            /\ hist[k].res.kind = "Ok"
            /\ \A q \in FilesBeneath(hist[k].pre, hist[k].call.folder) : WrittenOnce(k, q)
            /\ Len(Built(k)) = Cardinality(FilesBeneath(hist[k].pre, hist[k].call.folder))

\* Call k is a build call that passed the already-exists guard and returned
\* an error
FailedBuild(k) ==
    /\ IsBuild(k)
    /\ ~exists(hist[k].pre, hist[k].call.out)
    /\ hist[k].res.kind = "Err"

\* After call k a file is left at its output_zip_path, and the next call, if
\* it is a build call with the same output_zip_path, fails by the guard
LeftBehind(k) ==
    /\ is_file(hist[k].post, hist[k].call.out)
    /\ k + 1 \in Calls /\ IsBuild(k + 1) /\ hist[k + 1].call.out = hist[k].call.out
         => hist[k + 1].res = Panic(ExistsMsg)

\* C18 as stated: every build call that passes the already-exists guard and
\* then fails with an error leaves a file at output_zip_path, so that a second
\* build call with the same output_zip_path fails by the guard.
C18_FailedBuildLeavesFile ==
    \A k \in Calls : FailedBuild(k) => LeftBehind(k)

\* C18 (amended): a build call that passes the already-exists guard, creates
\* its output file and then fails with an error leaves a file at
\* output_zip_path, so that a second build call with the same
\* output_zip_path fails by the guard.
C18_FailedBuildLeavesCreatedFile ==
    \A k \in Calls :
        FailedBuild(k) /\ CanCreate(hist[k].pre, hist[k].call.out) => LeftBehind(k)

\* A build failed after it created its output, and the next build call with
\* the same output failed by the guard
C18_Witness ==
    \E k \in Calls :
        /\ FailedBuild(k) /\ CanCreate(hist[k].pre, hist[k].call.out)
        /\ k + 1 \in Calls /\ IsBuild(k + 1) /\ hist[k + 1].call.out = hist[k].call.out
        /\ hist[k + 1].res = Panic(ExistsMsg)

\* extract_path joined with a stored name, as Path::join defines it
Joined(dest, name) == IF name # <<>> /\ name[1] = "/" THEN name ELSE dest \o name

\* The errors a worker of extract_zip returns
WorkerErrors ==
    {"Password required to decrypt file", "Invalid password", "Invalid checksum",
     "create_dir_all", "File::create", "invalid Zip archive"}

\* C19: extract_zip performs no path-traversal sanitization: the file a
\* worker creates is the one the operating system reaches from extract_path
\* joined with the entry's stored name, parent-directory segments included,
\* and no worker fails for a reason other than decryption, the checksum or
\* the file system (no entry is rejected or renamed because of its name).
C19_NoSanitization ==
    pc = "extract_par" =>
        \A i \in Workers :
            /\ wk[i].pc \in {"copy", "done"}
                 => is_file(fs, Resolve(Joined(op.dest, EntryOf(i).name)))
            /\ wk[i].pc = "failed" => wk[i].err \in WorkerErrors

\* A worker has written a file outside the extraction root
C19_Witness ==
    /\ pc = "extract_par"
    /\ \E i \in Workers :
         /\ ".." \in {EntryOf(i).name[k] : k \in 1 .. Len(EntryOf(i).name)}
         /\ wk[i].pc = "done"
         /\ ~IsPrefix(op.dest, TargetOf(i))
         /\ is_file(fs, TargetOf(i))
         /\ ~exists(pre, TargetOf(i))

\* The names under which the regular files beneath folder_path before call k
\* are to be stored
SourceNames(k) ==
    {strip_prefix(q, hist[k].call.folder) :
        q \in FilesBeneath(hist[k].pre, hist[k].call.folder)}

\* C20: the archive written by a create_zip_from_folder that returns Ok
\* holds an entry for exactly the regular files that were under folder_path
\* before the call; the archive being written is not itself an entry.
C20_ExactlySourceFiles ==
    \A k \in Calls :
        FolderWalk(k) /\ hist[k].res.kind = "Ok" =>
            /\ Names(Built(k)) = SourceNames(k)
            /\ strip_prefix(hist[k].call.out, hist[k].call.folder) \notin Names(Built(k))

\* The same for an archive that is written outside the folder
C20_ExactlySourceFilesOutside ==
    \A k \in Calls :
        /\ FolderWalk(k) /\ hist[k].res.kind = "Ok"
        /\ ~IsPrefix(hist[k].call.folder, hist[k].call.out)
        => Names(Built(k)) = SourceNames(k)

\* The workers that have created their destination file and are copying
\* into it
Writing == {i \in Workers : wk[i].pc = "copy"}

\* The content of the entries of call k's archive that are extracted to path q
ContentsFor(k, q) ==
    {Delivered(IndexAt(k)[i], hist[k].call.pw) :
        i \in {j \in 1 .. Len(IndexAt(k)) : TargetAt(k, j) = q}}

\* After call k every destination holds the complete content of one of the
\* entries that are extracted to it
OneEntryEach(k) ==
    \A i \in 1 .. Len(IndexAt(k)) :
        /\ is_file(hist[k].post, TargetAt(k, i))
        /\ ReadBytes(hist[k].post[TargetAt(k, i)]) \in ContentsFor(k, TargetAt(k, i))

\* C21: in extract_zip no two workers write the same destination file
\* concurrently: the create-and-copy steps of two ordinals that resolve to
\* the same output path do not interleave, and when no worker has failed the
\* file holds the complete content of exactly one of the entries.
C21_NoConcurrentWrites ==
    /\ pc = "extract_par" =>
          \A i, j \in Writing : i # j => TargetOf(i) # TargetOf(j)
    /\ \A k \in Calls :
          IsExtract(k) /\ Opened(k) /\ hist[k].errs = {} /\ hist[k].res.kind = "Ok"
          => OneEntryEach(k)

\* The consequence C21 draws, alone: after a call in which no worker failed
\* every destination holds the complete content of one entry
C21_FinalFileIsOneEntry ==
    \A k \in Calls :
        IsExtract(k) /\ Opened(k) /\ hist[k].errs = {} /\ hist[k].res.kind = "Ok"
        => OneEntryEach(k)

\* The statement of C21 for archives whose entries go to distinct files
C21_DistinctTargetsKept ==
    \A k \in Calls :
        /\ IsExtract(k) /\ Opened(k) /\ hist[k].errs = {} /\ hist[k].res.kind = "Ok"
        /\ DistinctTargets(k)
        => OneEntryEach(k)

====
